---- MODULE Spec2Model ----
(***************************************************************************)
(* Connection management of the websocket-vue-front chat client.           *)
(*                                                                         *)
(* Two independent connection managers live in the repository:             *)
(*   - the HomeView component  (initWebSocket, websocketOnOpen,            *)
(*     websocketClose, closeConnection, ... in HomeView.vue), driven by    *)
(*     the Connect / Disconnect buttons of its template;                   *)
(*   - the Websocket service class (src/services/websocket.js), driven by  *)
(*     its public methods connect() and close().                           *)
(* A behaviour follows one of the two (variable unit); both run on the     *)
(* same platform: WebSocket objects with a readyState, one-shot timeouts   *)
(* and repeating intervals.  Every handler runs to completion, so each     *)
(* handler is one action.                                                  *)
(***************************************************************************)
EXTENDS Integers, Sequences, FiniteSets, TLC

\* ---------------------------------------------------------------- bounds
\* number of WebSocket objects a behaviour may construct
MaxSock == 3
\* milliseconds that pass in one step of the clock
TimeStep == 10000
\* number of WebSocket objects a behaviour of the chat may construct
MaxChatSock == 2
\* number of WebSocket objects a behaviour of the inbox may construct
MaxInboxSock == 1
\* number of entries messages.value may hold
MaxLog == 2
\* number of sendChatMessage calls that may be waiting at the same time
MaxWait == 1
\* CONFIG.webSocket.connectionAttempts, which the build reads from
\* VITE_WEBSOCKET_CONNECTION_ATTEMPTS (10 when it is not set): the value the
\* model configures
ConnectionAttempts == 2

\* ------------------------------------------------------ program constants
\* CONFIG.webSocket.reconnectTimeout / Websocket.reconnect
ReconnectTimeout == 5000
\* CONFIG.webSocket.pingInterval / Websocket.ping
PingPeriod == 10000

HbIds == 1..MaxSock
\* value of a timer slot that holds no live timer
Dead == -1
\* closeSeen of a step in which no close handler ran
NoClose == -1

VARIABLES
    unit,             \* "view": the HomeView component, "svc": the service
    ws,               \* readyState of every WebSocket object constructed
    timeouts,         \* pending setTimeout callbacks (reconnect), arming order
    hb,               \* live setInterval heartbeat timers: ms since last fire
    socket,           \* HomeView: socket.value (0 = null)
    status,           \* HomeView: status.value
    pingInterval,     \* HomeView: pingInterval.value (0 = null)
    username,         \* HomeView: username.value
    mounted,          \* HomeView: the component is mounted
    svcWs,            \* service: this.ws (0 = null)
    svcStatus,        \* service: this.status
    svcPingInterval,  \* service: this.pingInterval (0 = null)
    messages,         \* HomeView: messages.value
    userCount,        \* HomeView: userCount.value
    polls,            \* HomeView: the intervals of waitForOpenConnection
    env,              \* HomeView: window.location and import.meta.env
    url,              \* HomeView: the socketUrl of the last new WebSocket
    joined,           \* HomeView: the open WebSocket objects a JOIN was written to
    ev                \* the handler that ran last and what it observed

vars == <<unit, ws, timeouts, hb, socket, status, pingInterval,
          username, mounted, svcWs, svcStatus, svcPingInterval,
          messages, userCount, polls, env, url, joined, ev>>

platformVars == <<ws, timeouts, hb>>
viewVars == <<socket, status, pingInterval, username, mounted>>
svcVars == <<svcWs, svcStatus, svcPingInterval>>
chatVars == <<messages, userCount, polls>>

Min(a, b) == IF a < b THEN a ELSE b

\* ------------------------------------------------------------- platform
\* the WebSocket objects a behaviour may construct
Socks == DOMAIN ws

\* their number
Cap == Cardinality(Socks)

\* number of WebSocket objects constructed so far
Created == Cardinality({t \in Socks : ws[t] # "none"})

\* new WebSocket(url): the object starts in CONNECTING
NewSocket == Created + 1

\* WebSocket.close(): CONNECTING or OPEN becomes CLOSING and the close event
\* follows later; on a CLOSING or CLOSED object it does nothing
CloseAsync(w, t) ==
    IF w[t] \in {"connecting", "open"} THEN [w EXCEPT ![t] = "closing"] ELSE w

\* WebSocket.send(frame) on object t, as the frames that reach the wire:
\* accepted when OPEN, silently discarded when CLOSING or CLOSED (on
\* CONNECTING it throws, see SendThrows)
Send(w, t, frame) ==
    IF w[t] = "open" THEN <<[sock |-> t, frame |-> frame]>> ELSE <<>>

SendThrows(w, t) == w[t] = "connecting"

\* value of watch for a timeout that is not followed
Unwatched == -1

\* setTimeout(callback, delay), called by the close handler of object t that
\* found status seen and handle cur.  Besides its delay and age the pending
\* timeout remembers
\*   watch: 1 as long as no command was issued since the close of the
\*          connected transport (the open current handle, status 1) armed
\*          it, Unwatched otherwise;
\*   conn:  in HomeView, the first WebSocket object a connect command
\*          constructed while the delay was running (0 = none);
\*   manual: whether the close handler found status 2
ArmTimeout(q, delay, seen, t, cur) ==
    Append(q, [delay |-> delay, elapsed |-> 0,
               watch |-> IF seen = 1 /\ t = cur /\ ws[t] = "open" THEN 1 ELSE Unwatched,
               conn |-> 0,
               manual |-> seen = 2])

\* a command (disconnect, unmount) was issued while q was pending
Commanded(q) == [i \in 1..Len(q) |-> [q[i] EXCEPT !.watch = Unwatched]]

\* a connect command constructed object t while q was pending
Connected(q, t) ==
    [i \in 1..Len(q) |->
        [q[i] EXCEPT !.watch = Unwatched,
                     !.conn = IF @ = 0 /\ q[i].elapsed < q[i].delay THEN t ELSE @]]

RemoveAt(q, i) == [j \in 1..(Len(q) - 1) |-> IF j < i THEN q[j] ELSE q[j + 1]]

\* setInterval: the id of the new timer
NewHbId(h) == CHOOSE i \in HbIds : h[i] = Dead /\ \A j \in HbIds : h[j] = Dead => i <= j

\* clearInterval(id); clearInterval of null or of a dead id does nothing
ClearInterval(h, id) == IF id \in HbIds THEN [h EXCEPT ![id] = Dead] ELSE h

\* what a handler did: op the handler, sock the WebSocket object it concerns,
\* closeSeen the status the close handler found when it ran in this step,
\* made the number of WebSocket objects it constructed, wrote the frames it
\* put on the wire, threw whether it ended in an exception, err the error it
\* reported with console.error, wait the waitForOpenConnection it handled,
\* text the messageText it was called with, data the e.data of the message
\* event it handled
Event(op, t, seen, made) ==
    [op |-> op, sock |-> t, closeSeen |-> seen, made |-> made, wrote |-> <<>>,
     threw |-> FALSE, timer |-> <<>>, err |-> "", wait |-> <<>>,
     text |-> "", data |-> <<>>]

Wrote(op, t, frames) ==
    [op |-> op, sock |-> t, closeSeen |-> NoClose, made |-> 0, wrote |-> frames,
     threw |-> FALSE, timer |-> <<>>, err |-> "", wait |-> <<>>,
     text |-> "", data |-> <<>>]

Thrown(op, t) ==
    [op |-> op, sock |-> t, closeSeen |-> NoClose, made |-> 0, wrote |-> <<>>,
     threw |-> TRUE, timer |-> <<>>, err |-> "", wait |-> <<>>,
     text |-> "", data |-> <<>>]

\* the callback of timeout tm ran and constructed made WebSocket objects
Fired(t, made, tm) ==
    [op |-> "reconnect", sock |-> t, closeSeen |-> NoClose, made |-> made,
     wrote |-> <<>>, threw |-> FALSE, timer |-> <<tm>>, err |-> "", wait |-> <<>>,
     text |-> "", data |-> <<>>]

\* the interval of a waitForOpenConnection: text the messageText of the
\* sendChatMessage that awaits it, attempt its currentAttempt.  It also
\* remembers tested, how many times its callback has tested readiness, and
\* opened, whether the handle had its open event while the wait had polls
\* left
NewPoll(text) == [text |-> text, attempt |-> 0, tested |-> 0, opened |-> FALSE]

\* the open event of the handle, as the pending waits remember it
SawOpen(q) ==
    [i \in 1..Len(q) |->
        [q[i] EXCEPT !.opened = @ \/ q[i].tested < ConnectionAttempts]]

\* a handler that reported text with console.error; w the wait it handled
Failed(op, t, text, w) ==
    [op |-> op, sock |-> t, closeSeen |-> NoClose, made |-> 0, wrote |-> <<>>,
     threw |-> FALSE, timer |-> <<>>, err |-> text, wait |-> w,
     text |-> "", data |-> <<>>]

\* sendChatMessage(text) ran up to its await, wrote frames and reported err
Sent(t, frames, text, err) ==
    [op |-> "send", sock |-> t, closeSeen |-> NoClose, made |-> 0, wrote |-> frames,
     threw |-> FALSE, timer |-> <<>>, err |-> err, wait |-> <<>>, text |-> text,
     data |-> <<>>]

\* the callback of the interval of wait p (as it was when the callback
\* started) ran and wrote frames
Polled(t, frames, p) ==
    [op |-> "poll", sock |-> t, closeSeen |-> NoClose, made |-> 0, wrote |-> frames,
     threw |-> FALSE, timer |-> <<>>, err |-> "", wait |-> <<p>>,
     text |-> "", data |-> <<>>]

\* ----------------------------------------------------------------- frames
JoinMessage(name) == [type |-> "JOIN", name |-> name, message |-> ""]
ChatMessage(name, text) == [type |-> "CHAT", name |-> name, message |-> text]
PingMessage == [type |-> "PING", name |-> "System", message |-> "ping"]
\* the service's heartbeat {type: 0}, as the JSON text that reaches the wire
SvcPing == [type |-> "0", name |-> "", message |-> ""]

\* ------------------------------------------------------ getWebSocketUrl
\* window.location (protocol, hostname, port) and the variables of
\* import.meta.env that getWebSocketUrl depends on; a variable that is not
\* set is the empty text
Environment(protocol, hostname, port, mode, wsHost, wsPort, wsEndpoint) ==
    [protocol |-> protocol, hostname |-> hostname, port |-> port,
     VITE_INTEGRATED_MODE |-> mode, VITE_WEBSOCKET_HOST |-> wsHost,
     VITE_WEBSOCKET_PORT |-> wsPort, VITE_WEBSOCKET_ENDPOINT |-> wsEndpoint]

\* the page and the variables the tests set up
TestEnv == Environment("http:", "localhost", "3000", "false", "localhost", "8080", "/chat")

\* the environments a behaviour may run in
Envs ==
    {Environment(protocol, "app.example.org", port, mode, wsHost, wsPort, "") :
        protocol \in {"http:", "https:"},
        port \in {"", "80", "443", "3000"},
        mode \in {"", "true", "TRUE", "false"},
        wsHost \in {"", "chat.example.org"},
        wsPort \in {"", "9000"}}

\* value || fallback on texts
OrDefault(value, fallback) == IF value = "" THEN fallback ELSE value

\* value.toLowerCase() on the texts of VITE_INTEGRATED_MODE
ToLowerCase(value) == IF value = "TRUE" THEN "true" ELSE value

\* parseEnvBool
ParseEnvBool(value) == IF value = "" THEN FALSE ELSE ToLowerCase(value) = "true"

\* CONFIG, with VITE_WEBSOCKET_PROTOCOL and VITE_WEBSOCKET_SECURE_PROTOCOL
\* not set
Config(e) ==
    [isIntegrated |-> ParseEnvBool(OrDefault(e.VITE_INTEGRATED_MODE, "false")),
     protocol |-> "ws",
     secureProtocol |-> "wss",
     host |-> OrDefault(e.VITE_WEBSOCKET_HOST, "localhost"),
     port |-> OrDefault(e.VITE_WEBSOCKET_PORT, "8080"),
     endpoint |-> OrDefault(e.VITE_WEBSOCKET_ENDPOINT, "/chat")]

\* a test that takes 80 and 443 for default ports of every page
IsDefaultPort_any(protocol, port) == port \in {"80", "443"}

\* the port is the default port of the protocol of the page
IsDefaultPort(protocol, port) ==
    \/ protocol = "http:" /\ port = "80"
    \/ protocol = "https:" /\ port = "443"

\* getWebSocketUrl: the socketUrl it returns, as the pieces its template
\* literals put together
GetWebSocketUrl(e) ==
    LET socketProtocol == IF e.protocol = "https:"
                          THEN Config(e).secureProtocol
                          ELSE Config(e).protocol
    IN IF Config(e).isIntegrated
       THEN <<socketProtocol, "://", e.hostname>>
            \o (IF e.port # "" /\ ~IsDefaultPort(e.protocol, e.port)
                THEN <<":", e.port>> ELSE <<>>)
            \o <<Config(e).endpoint>>
       ELSE <<socketProtocol, "://", Config(e).host>>
            \o (IF Config(e).port # "" THEN <<":", Config(e).port>> ELSE <<>>)
            \o <<Config(e).endpoint>>

\* ------------------------------------------------------------------ Init
\* the state after construction, for a behaviour that follows one of units,
\* may construct n WebSocket objects and runs in one of envs
StartIn(units, n, envs) ==
    /\ unit \in units
    /\ env \in envs
    /\ url = <<>>
    /\ ws = [t \in 1..n |-> "none"]
    /\ timeouts = <<>>
    /\ hb = [i \in HbIds |-> Dead]
    /\ socket = 0
    /\ status = 0
    /\ pingInterval = 0
    /\ username = "Guest-1"
    /\ mounted = (unit = "view")
    /\ svcWs = 0
    /\ svcStatus = 0
    /\ svcPingInterval = 0
    /\ messages = <<>>
    /\ userCount = 0
    /\ polls = <<>>
    /\ joined = {}
    /\ ev = Event("init", 0, NoClose, 0)

\* the same in the environment of the tests
Start(units, n) == StartIn(units, n, {TestEnv})

Init == Start({"view", "svc"}, MaxSock)

\* ------------------------------------------------------------- the clock
\* time passes: every pending timer ages; a timer that is due may fire late
Tick ==
    /\ timeouts' = [i \in 1..Len(timeouts) |->
                      [timeouts[i] EXCEPT !.elapsed = Min(@ + TimeStep, ReconnectTimeout)]]
    /\ hb' = [i \in HbIds |-> IF hb[i] = Dead THEN Dead ELSE Min(hb[i] + TimeStep, PingPeriod)]
    /\ ev' = Event("tick", 0, NoClose, 0)
    /\ UNCHANGED <<unit, env, joined, url, ws, viewVars, svcVars, chatVars>>

\* ------------------------------------------------------------- HomeView
\* clearPingInterval: the interval table and pingInterval.value afterwards
ClearPingHb(h, p) == ClearInterval(h, p)

\* websocketClose, the status it leaves
CloseStatus(s) == IF s # 2 THEN 0 ELSE 2

\* websocketClose arming its timeout twice
CloseTimeouts_twice(q, s, t) ==
    IF s # 2
    THEN ArmTimeout(ArmTimeout(q, ReconnectTimeout, s, t, socket),
                    ReconnectTimeout, s, t, socket)
    ELSE q

\* websocketClose, the reconnect timeout it arms
CloseTimeouts(q, s, t) ==
    IF s # 2 THEN ArmTimeout(q, ReconnectTimeout, s, t, socket) ELSE q

\* the Connect button (shown while status is 0 or 2) calls initWebSocket
InitWebSocket ==
    /\ unit = "view"
    /\ mounted
    /\ status \in {0, 2}
    /\ Created < Cap
    /\ ws' = [ws EXCEPT ![NewSocket] = "connecting"]
    /\ socket' = NewSocket
    /\ timeouts' = Connected(timeouts, NewSocket)
    /\ url' = GetWebSocketUrl(env)
    /\ ev' = Event("connect", NewSocket, NoClose, 1)
    /\ UNCHANGED <<unit, env, joined, hb, status, pingInterval, username, mounted, svcVars, chatVars>>

\* an open handler that announces nobody
Joins_never(w, cur) == FALSE

\* sendJoinMessage: whether it gets past its early return
Joins(w, cur) == cur # 0 /\ w[cur] = "open"

\* the WebSocket objects the frames were written to
Targets(frames) == {frames[k].sock : k \in DOMAIN frames}

\* of the objects in j, those that are OPEN in w: nothing is written to an
\* object once close() was called on it or its close event was fired
StillOpen(j, w) == {t \in j : w[t] = "open"}

\* the open event of object t: websocketOnOpen, with startPingInterval and
\* sendJoinMessage
WebsocketOnOpen(t) ==
    /\ unit = "view"
    /\ ws[t] = "connecting"
    /\ LET w1 == [ws EXCEPT ![t] = "open"]
           h1 == ClearInterval(hb, pingInterval)
           id == NewHbId(h1)
           frames == IF Joins(w1, socket)
                     THEN Send(w1, socket, JoinMessage(username))
                     ELSE <<>>
       IN /\ ws' = w1
          /\ status' = 1
          /\ hb' = [h1 EXCEPT ![id] = 0]
          /\ pingInterval' = id
          /\ ev' = Wrote("open", t, frames)
          /\ joined' = joined \cup Targets(frames)
          /\ polls' = IF t = socket THEN SawOpen(polls) ELSE polls
    /\ UNCHANGED <<unit, env, url, timeouts, socket, username, mounted, svcVars,
                   messages, userCount>>

\* the callback of heartbeat interval i, set up by startPingInterval
PingTick(i) ==
    /\ unit = "view"
    /\ hb[i] # Dead
    /\ hb[i] >= PingPeriod
    /\ LET h0 == [hb EXCEPT ![i] = 0]
       IN IF socket # 0 /\ status = 1
          THEN /\ hb' = h0
               /\ pingInterval' = pingInterval
               /\ ev' = IF SendThrows(ws, socket)
                        THEN Thrown("ping", socket)
                        ELSE Wrote("ping", socket, Send(ws, socket, PingMessage))
          ELSE /\ hb' = ClearPingHb(h0, pingInterval)
               /\ pingInterval' = 0
               /\ ev' = Event("ping", 0, NoClose, 0)
    /\ UNCHANGED <<unit, env, joined, url, ws, timeouts, socket, status, username, mounted, svcVars, chatVars>>

\* an error handler that takes the error for the end of the connection
WebsocketOnError_disconnects(t) ==
    /\ unit = "view"
    /\ ws[t] \in {"connecting", "open"}
    /\ status' = 0
    /\ ev' = Event("error", t, NoClose, 0)
    /\ UNCHANGED <<unit, env, joined, url, platformVars, socket, pingInterval, username, mounted,
                   svcVars, chatVars>>

\* the error event of object t: websocketOnError only logs
WebsocketOnError(t) ==
    /\ unit = "view"
    /\ ws[t] \in {"connecting", "open"}
    /\ ev' = Event("error", t, NoClose, 0)
    /\ UNCHANGED <<unit, env, joined, url, platformVars, viewVars, svcVars, chatVars>>

\* the close event of object t: websocketClose
WebsocketClose(t) ==
    /\ unit = "view"
    /\ ws[t] \in {"connecting", "open", "closing"}
    /\ ws' = [ws EXCEPT ![t] = "closed"]
    /\ hb' = ClearPingHb(hb, pingInterval)
    /\ pingInterval' = 0
    /\ status' = CloseStatus(status)
    /\ timeouts' = CloseTimeouts(timeouts, status, t)
    /\ ev' = Event("close", t, status, 0)
    /\ joined' = StillOpen(joined, ws')
    /\ UNCHANGED <<unit, env, url, socket, username, mounted, svcVars, chatVars>>

\* a callback that reconnects without looking at status
ReconnectWanted_always(s) == TRUE

\* the callback of the reconnect timeout: whether it calls initWebSocket
ReconnectWanted(s) == s = 0

\* the callback of the reconnect timeout armed by websocketClose
ReconnectFire(i) ==
    /\ unit = "view"
    /\ i \in 1..Len(timeouts)
    /\ timeouts[i].elapsed >= timeouts[i].delay
    /\ timeouts' = RemoveAt(timeouts, i)
    /\ IF ReconnectWanted(status)
       THEN /\ Created < Cap
            /\ ws' = [ws EXCEPT ![NewSocket] = "connecting"]
            /\ socket' = NewSocket
            /\ url' = GetWebSocketUrl(env)
            /\ ev' = Fired(NewSocket, 1, timeouts[i])
       ELSE /\ ws' = ws
            /\ socket' = socket
            /\ url' = url
            /\ ev' = Fired(0, 0, timeouts[i])
    /\ UNCHANGED <<unit, env, joined, hb, status, pingInterval, username, mounted, svcVars, chatVars>>

\* closeConnection calling socket.close() with status not yet set
StatusBeforeClose_unset(s) == s

\* closeConnection: the status it has set when it calls socket.close()
StatusBeforeClose(s) == 2

\* the Disconnect button (shown while status is 1) calls closeConnection.
\* sync: the platform delivers the close event inside close()
CloseConnection(sync) ==
    /\ unit = "view"
    /\ mounted
    /\ status = 1
    /\ IF socket # 0
       THEN LET inside == sync /\ ws[socket] \in {"connecting", "open"}
                s1 == StatusBeforeClose(status)
            IN /\ sync => inside
               /\ hb' = ClearPingHb(hb, pingInterval)
               /\ pingInterval' = 0
               /\ ws' = IF inside THEN [ws EXCEPT ![socket] = "closed"]
                        ELSE CloseAsync(ws, socket)
               /\ status' = IF inside THEN CloseStatus(s1) ELSE s1
               /\ timeouts' = Commanded(IF inside
                                         THEN CloseTimeouts(timeouts, s1, socket)
                                         ELSE timeouts)
               /\ socket' = 0
               /\ ev' = Event("disconnect", socket, IF inside THEN s1 ELSE NoClose, 0)
       ELSE /\ ~sync
            /\ timeouts' = Commanded(timeouts)
            /\ ev' = Event("disconnect", 0, NoClose, 0)
            /\ UNCHANGED <<ws, hb, socket, status, pingInterval>>
    /\ joined' = StillOpen(joined, ws')
    /\ UNCHANGED <<unit, env, url, username, mounted, svcVars, chatVars>>

\* onBeforeUnmount
Unmount(sync) ==
    /\ unit = "view"
    /\ mounted
    /\ mounted' = FALSE
    /\ LET closes == socket # 0 /\ status = 1
           inside == closes /\ sync /\ ws[socket] \in {"connecting", "open"}
       IN /\ sync => inside
          /\ ws' = IF inside THEN [ws EXCEPT ![socket] = "closed"]
                   ELSE IF closes THEN CloseAsync(ws, socket) ELSE ws
          /\ status' = IF inside THEN CloseStatus(status) ELSE status
          /\ timeouts' = Commanded(IF inside
                                    THEN CloseTimeouts(timeouts, status, socket)
                                    ELSE timeouts)
          /\ hb' = ClearPingHb(hb, pingInterval)
          /\ pingInterval' = 0
          /\ ev' = Event("unmount", IF closes THEN socket ELSE 0,
                         IF inside THEN status ELSE NoClose, 0)
    /\ joined' = StillOpen(joined, ws')
    /\ UNCHANGED <<unit, env, url, socket, username, svcVars, chatVars>>

\* the texts ChatClient emits with send-message (never the empty text)
Texts == {"hi"}

\* what sendChatMessage and waitForOpenConnection report
NotInitialized == "WebSocket is not initialized"
AttemptsExceeded == "Maximum number of attempts exceeded"

\* sendChatMessage polling for a handle that does not exist
SendPath_polls(w, cur) ==
    IF cur = 0 \/ w[cur] # "open" THEN "wait" ELSE "now"

\* sendChatMessage waiting whatever the readyState of the handle
SendPath_waits(w, cur) == IF cur = 0 THEN "none" ELSE "wait"

\* sendChatMessage: the branch it takes with handle cur
SendPath(w, cur) ==
    IF cur = 0 THEN "none" ELSE IF w[cur] # "open" THEN "wait" ELSE "now"

\* the send-message event of ChatClient: sendChatMessage(text) up to its
\* await; with a handle that is not OPEN it starts waitForOpenConnection.
\* The handler does not look at status, and the tests emit the event in
\* every state of the connection
SendChatMessage(text) ==
    /\ unit = "view"
    /\ mounted
    /\ LET path == SendPath(ws, socket)
       IN /\ path = "wait" => Len(polls) < MaxWait
          /\ polls' = IF path = "wait" THEN Append(polls, NewPoll(text)) ELSE polls
          /\ ev' = Sent(socket,
                        IF path = "now"
                        THEN Send(ws, socket, ChatMessage(username, text))
                        ELSE <<>>,
                        text,
                        IF path = "none" THEN NotInitialized ELSE "")
    /\ UNCHANGED <<unit, env, joined, url, platformVars, viewVars, svcVars, messages, userCount>>

\* waitForOpenConnection rejecting one callback too early
GivesUp_early(attempt) == attempt > ConnectionAttempts - 2

\* waitForOpenConnection rejecting one callback too late
GivesUp_late(attempt) == attempt > ConnectionAttempts

\* the callback of waitForOpenConnection: whether it rejects
GivesUp(attempt) == attempt > ConnectionAttempts - 1

\* the callback of waitForOpenConnection: its test of readiness
Ready(w, cur) == cur # 0 /\ w[cur] = "open"

\* the callback of the interval of the i-th pending waitForOpenConnection,
\* and the rest of sendChatMessage when it settles the promise.  The period
\* of the interval (200 ms) is far below one step of the clock: between two
\* steps the callback may run any number of times
PollFire(i) ==
    /\ unit = "view"
    /\ i \in 1..Len(polls)
    /\ LET p == polls[i]
       IN IF GivesUp(p.attempt)
          THEN /\ polls' = RemoveAt(polls, i)
               /\ ev' = Failed("poll", socket, AttemptsExceeded, <<p>>)
          ELSE IF Ready(ws, socket)
          THEN /\ polls' = RemoveAt(polls, i)
               /\ ev' = Polled(socket, Send(ws, socket, ChatMessage(username, p.text)), p)
          ELSE /\ polls' = [polls EXCEPT ![i] = [p EXCEPT !.attempt = @ + 1,
                                                          !.tested = @ + 1]]
               /\ ev' = Polled(socket, <<>>, p)
    /\ UNCHANGED <<unit, env, joined, url, platformVars, viewVars, svcVars, messages, userCount>>

\* ------------------------------------------------- the inbound messages
\* the values the JSON texts stand for: an object with the fields of a
\* ChatMessage, or null
Object(type, name, message) ==
    [js |-> "object", type |-> type, name |-> name, message |-> message]
Null == [js |-> "null", type |-> "", name |-> "", message |-> ""]

\* data.type, data.name, data.message of a value that has no such property
Undefined == "undefined"

\* the values of the other JSON texts: a number, a string or an array
Plain(js) == [js |-> js, type |-> Undefined, name |-> Undefined, message |-> Undefined]

\* e.data of a message event: the JSON text of value v, or the text x that
\* is not JSON
Json(v) == [kind |-> "json", value |-> v, text |-> ""]
Text(x) == [kind |-> "text", value |-> Null, text |-> x]

\* the message fields the server sends with USER_COUNT
Bodies == {"5", "12", "12a", "a1", ""}

\* what the peer may send
Payloads ==
    {Json(Object(type, "Bob", "hello")) :
        type \in {"CHAT", "JOIN", "LEAVE", "ERROR", "PING", "PONG"}}
    \cup {Json(Object("USER_COUNT", "System", body)) : body \in Bodies}
    \cup {Json(Null), Text("hello")}

\* JSON texts that are not a ChatMessage: a number, a string, an array, an
\* object without type and an object of an unknown type; with one CHAT
OddPayloads ==
    {Json(Plain(js)) : js \in {"number", "string", "array"}}
    \cup {Json(Object(Undefined, "Bob", "hello")), Json(Object("FOO", "Bob", "hello")),
          Json(Object("CHAT", "Bob", "hello"))}

\* JSON.parse(e.data) throws on a text that is not JSON
ParseThrows(raw) == raw.kind # "json"

\* JSON.parse(e.data) otherwise
Parse(raw) == raw.value

\* e.data as a string
RawText(raw) == IF raw.kind = "text" THEN raw.text
                ELSE IF raw.value.js = "null" THEN "null"
                ELSE "{...}"

\* data.type throws on null
TypeThrows(v) == v.js = "null"

\* a handler that files every entry under System
Entry_system(v) == [type |-> v.type, name |-> "System", message |-> v.message]

\* the object as it is pushed to messages
Entry(v) == [type |-> v.type, name |-> v.name, message |-> v.message]

\* the characters of the strings in Bodies
Chars(str) ==
    CASE str = "5" -> <<"5">>
      [] str = "12" -> <<"1", "2">>
      [] str = "12a" -> <<"1", "2", "a">>
      [] str = "a1" -> <<"a", "1">>
      [] OTHER -> <<>>

DigitChars == <<"0", "1", "2", "3", "4", "5", "6", "7", "8", "9">>
IsDigit(c) == \E d \in 1..Len(DigitChars) : DigitChars[d] = c
DigitValue(c) == (CHOOSE d \in 1..Len(DigitChars) : DigitChars[d] = c) - 1

\* the digits at the front of cs
RECURSIVE LeadingDigits(_)
LeadingDigits(cs) ==
    IF cs # <<>> /\ IsDigit(Head(cs))
    THEN <<Head(cs)>> \o LeadingDigits(Tail(cs))
    ELSE <<>>

\* the decimal value of a sequence of digits
RECURSIVE Decimal(_)
Decimal(ds) ==
    IF ds = <<>> THEN 0
    ELSE 10 * Decimal(SubSeq(ds, 1, Len(ds) - 1)) + DigitValue(ds[Len(ds)])

\* parseInt(str) of an unsigned text: the value of its leading digits, NaN
\* when it has none
ParseInt(str) ==
    LET ds == LeadingDigits(Chars(str))
    IN [nan |-> ds = <<>>, n |-> Decimal(ds)]

\* userCount taking the parsed value as it is
OrZero_raw(r) == r.n - (IF r.nan THEN 1 ELSE 0)

\* parseInt(...) || 0
OrZero(r) == IF r.nan \/ r.n = 0 THEN 0 ELSE r.n

\* the entry the catch branch pushes
SystemMessage(raw) == [type |-> "CHAT", name |-> "System", message |-> RawText(raw)]

\* a switch whose silent case names PING
Discards_pings(v) == v.type = "PING"

\* the switch on data.type: the case that only logs
Discards(v) == v.type = "PONG"

\* a handler that starts the count again on every other arrival
Counted_reset(raw, count) ==
    IF ParseThrows(raw) \/ TypeThrows(Parse(raw)) THEN 0
    ELSE IF Parse(raw).type = "USER_COUNT"
    THEN OrZero(ParseInt(Parse(raw).message))
    ELSE 0

\* a catch branch that drops the payload
Pushed_dropped(raw) == <<>>

\* websocketOnMessage: the entries it pushes to messages
Pushed(raw) ==
    IF ParseThrows(raw) \/ TypeThrows(Parse(raw))
    THEN <<SystemMessage(raw)>>
    ELSE IF Discards(Parse(raw)) \/ Parse(raw).type = "USER_COUNT"
    THEN <<>>
    ELSE <<Entry(Parse(raw))>>

\* websocketOnMessage: userCount.value afterwards
Counted(raw, count) ==
    IF ParseThrows(raw) \/ TypeThrows(Parse(raw)) THEN count
    ELSE IF ~Discards(Parse(raw)) /\ Parse(raw).type = "USER_COUNT"
    THEN OrZero(ParseInt(Parse(raw).message))
    ELSE count

\* a log that keeps only what arrived last
Push_latest(log, entries) == IF entries = <<>> THEN log ELSE entries

\* messages.value.push(...)
Push(log, entries) == log \o entries

\* the handler of a message event
Received(t, raw) ==
    [op |-> "message", sock |-> t, closeSeen |-> NoClose, made |-> 0, wrote |-> <<>>,
     threw |-> FALSE, timer |-> <<>>, err |-> "", wait |-> <<>>, text |-> "",
     data |-> <<raw>>]

\* a message event of object t (the platform fires it only while the object
\* is OPEN): websocketOnMessage
WebsocketOnMessage(t, raw) ==
    /\ unit = "view"
    /\ ws[t] = "open"
    /\ Len(messages) + Len(Pushed(raw)) <= MaxLog
    /\ messages' = Push(messages, Pushed(raw))
    /\ userCount' = Counted(raw, userCount)
    /\ ev' = Received(t, raw)
    /\ UNCHANGED <<unit, env, joined, url, platformVars, viewVars, svcVars, polls>>

\* the names typed into the username input
Names == {"Guest-1", "Ann"}

\* the input event of the username field (shown while status is 1), bound
\* to username by v-model
TypeUsername(name) ==
    /\ unit = "view"
    /\ mounted
    /\ status = 1
    /\ name # username
    /\ username' = name
    /\ ev' = Event("type", 0, NoClose, 0)
    /\ UNCHANGED <<unit, env, joined, url, platformVars, socket, status, pingInterval, mounted,
                   svcVars, chatVars>>

\* username.value.trim().length > 0
NonBlank(name) == name \notin {"", " "}

\* the Update name button (shown while status is 1): updateUsername, with
\* sendJoinMessage
UpdateUsername ==
    /\ unit = "view"
    /\ mounted
    /\ status = 1
    /\ LET frames == IF NonBlank(username) /\ Joins(ws, socket)
                     THEN Send(ws, socket, JoinMessage(username))
                     ELSE <<>>
       IN /\ ev' = Wrote("rename", socket, frames)
          /\ joined' = joined \cup Targets(frames)
    /\ UNCHANGED <<unit, env, url, platformVars, viewVars, svcVars, chatVars>>

ViewNext ==
    \/ InitWebSocket
    \/ \E t \in Socks : WebsocketOnOpen(t)
    \/ \E i \in HbIds : PingTick(i)
    \/ \E t \in Socks : WebsocketOnError(t)
    \/ \E t \in Socks : WebsocketClose(t)
    \/ \E i \in 1..MaxSock : ReconnectFire(i)
    \/ \E sync \in BOOLEAN : CloseConnection(sync)
    \/ \E sync \in BOOLEAN : Unmount(sync)

\* ------------------------------------------------- the Websocket service
\* onClose, the status it leaves
SvcCloseStatus(s) == IF s = 2 THEN s ELSE 0

\* onClose, the reconnect timeout it arms
SvcCloseTimeouts(q, s, t) == ArmTimeout(q, ReconnectTimeout, s, t, svcWs)

\* connect()
SvcConnect ==
    /\ unit = "svc"
    /\ Created < Cap
    /\ ws' = [ws EXCEPT ![NewSocket] = "connecting"]
    /\ svcWs' = NewSocket
    /\ timeouts' = Commanded(timeouts)
    /\ ev' = Event("connect", NewSocket, NoClose, 1)
    /\ UNCHANGED <<unit, env, joined, url, hb, viewVars, chatVars, svcStatus, svcPingInterval>>

\* the open event of object t: ws.onopen, with heartHandler
SvcOnOpen(t) ==
    /\ unit = "svc"
    /\ ws[t] = "connecting"
    /\ ws' = [ws EXCEPT ![t] = "open"]
    /\ svcStatus' = 1
    /\ LET id == NewHbId(hb)
       IN /\ hb' = [hb EXCEPT ![id] = 0]
          /\ svcPingInterval' = id
    /\ ev' = Event("open", t, NoClose, 0)
    /\ UNCHANGED <<unit, env, joined, url, timeouts, viewVars, chatVars, svcWs>>

\* the callback of heartbeat interval i, set up by heartHandler
SvcHeartTick(i) ==
    /\ unit = "svc"
    /\ hb[i] # Dead
    /\ hb[i] >= PingPeriod
    /\ LET h0 == [hb EXCEPT ![i] = 0]
       IN IF svcStatus = 1
          THEN /\ hb' = h0
               /\ ev' = IF SendThrows(ws, svcWs)
                        THEN Thrown("ping", svcWs)
                        ELSE Wrote("ping", svcWs, Send(ws, svcWs, SvcPing))
          ELSE /\ hb' = ClearInterval(h0, svcPingInterval)
               /\ ev' = Event("ping", 0, NoClose, 0)
    /\ UNCHANGED <<unit, env, joined, url, ws, timeouts, viewVars, svcVars, chatVars>>

\* the error event of object t: ws.onerror only logs
SvcOnError(t) ==
    /\ unit = "svc"
    /\ ws[t] \in {"connecting", "open"}
    /\ ev' = Event("error", t, NoClose, 0)
    /\ UNCHANGED <<unit, env, joined, url, platformVars, viewVars, svcVars, chatVars>>

\* the close event of object t: ws.onclose, that is onClose(e)
SvcOnClose(t) ==
    /\ unit = "svc"
    /\ ws[t] \in {"connecting", "open", "closing"}
    /\ ws' = [ws EXCEPT ![t] = "closed"]
    /\ svcStatus' = SvcCloseStatus(svcStatus)
    /\ timeouts' = SvcCloseTimeouts(timeouts, svcStatus, t)
    /\ ev' = Event("close", t, svcStatus, 0)
    /\ UNCHANGED <<unit, env, joined, url, hb, viewVars, chatVars, svcWs, svcPingInterval>>

\* the callback of the reconnect timeout: whether it calls connect()
SvcReconnectWanted(s) == s = 0

\* the callback of the reconnect timeout armed by onClose
SvcReconnectFire(i) ==
    /\ unit = "svc"
    /\ i \in 1..Len(timeouts)
    /\ timeouts[i].elapsed >= timeouts[i].delay
    /\ timeouts' = RemoveAt(timeouts, i)
    /\ IF SvcReconnectWanted(svcStatus)
       THEN /\ Created < Cap
            /\ ws' = [ws EXCEPT ![NewSocket] = "connecting"]
            /\ svcWs' = NewSocket
            /\ ev' = Fired(NewSocket, 1, timeouts[i])
       ELSE /\ ws' = ws
            /\ svcWs' = svcWs
            /\ ev' = Fired(0, 0, timeouts[i])
    /\ UNCHANGED <<unit, env, joined, url, hb, viewVars, chatVars, svcStatus, svcPingInterval>>

\* close(): the status it has set when it calls this.ws.close()
SvcStatusBeforeClose(s) == 2

\* close().  sync: the platform delivers the close event inside ws.close().
\* Before any connect() this.ws is null and this.ws.close() throws
SvcClose(sync) ==
    /\ unit = "svc"
    /\ IF svcWs = 0
       THEN /\ ~sync
            /\ svcStatus' = SvcStatusBeforeClose(svcStatus)
            /\ timeouts' = Commanded(timeouts)
            /\ ev' = Thrown("disconnect", 0)
            /\ ws' = ws
       ELSE LET inside == sync /\ ws[svcWs] \in {"connecting", "open"}
                s1 == SvcStatusBeforeClose(svcStatus)
            IN /\ sync => inside
               /\ ws' = IF inside THEN [ws EXCEPT ![svcWs] = "closed"]
                        ELSE CloseAsync(ws, svcWs)
               /\ svcStatus' = IF inside THEN SvcCloseStatus(s1) ELSE s1
               /\ timeouts' = Commanded(IF inside
                                         THEN SvcCloseTimeouts(timeouts, s1, svcWs)
                                         ELSE timeouts)
               /\ ev' = Event("disconnect", svcWs, IF inside THEN s1 ELSE NoClose, 0)
    /\ UNCHANGED <<unit, env, joined, url, hb, viewVars, chatVars, svcWs, svcPingInterval>>

\* ws.onmessage handled e.data: JSON.parse threw, or the callback of the
\* caller was called with the value
SvcReceived(t, raw) == [Received(t, raw) EXCEPT !.threw = ParseThrows(raw)]

\* a message event of object t: ws.onmessage.  The callback is the caller's
\* and does not touch the service
SvcOnMessage(t, raw) ==
    /\ unit = "svc"
    /\ ws[t] = "open"
    /\ ev' = SvcReceived(t, raw)
    /\ UNCHANGED <<unit, env, joined, url, platformVars, viewVars, svcVars, chatVars>>

SvcNext ==
    \/ SvcConnect
    \/ \E t \in Socks : SvcOnOpen(t)
    \/ \E i \in HbIds : SvcHeartTick(i)
    \/ \E t \in Socks : SvcOnError(t)
    \/ \E t \in Socks : SvcOnClose(t)
    \/ \E i \in 1..MaxSock : SvcReconnectFire(i)
    \/ \E sync \in BOOLEAN : SvcClose(sync)

\* ------------------------------------------------------- specifications
\* the connection managers
Next == Tick \/ ViewNext \/ SvcNext

Spec == Init /\ [][Next]_vars

\* the timers fire and time passes: what the platform's scheduling guarantees
FairSpec ==
    /\ Spec
    /\ WF_vars(Tick)
    /\ \A i \in 1..MaxSock : WF_vars(ReconnectFire(i))
    /\ \A i \in 1..MaxSock : WF_vars(SvcReconnectFire(i))

\* HomeView with the chat input of ChatClient
ChatInit == Start({"view"}, MaxChatSock)

SendNext ==
    \/ Tick
    \/ ViewNext
    \/ \E text \in Texts : SendChatMessage(text)
    \/ \E i \in 1..MaxWait : PollFire(i)
    \/ \E name \in Names : TypeUsername(name)
    \/ UpdateUsername

SendSpec == ChatInit /\ [][SendNext]_vars

\* HomeView receiving: the handlers that open and close transports, and the
\* message events
InboxNext ==
    \/ InitWebSocket
    \/ \E t \in Socks : WebsocketOnOpen(t)
    \/ \E t \in Socks : WebsocketClose(t)
    \/ \E sync \in BOOLEAN : CloseConnection(sync)
    \/ \E t \in Socks, raw \in Payloads : WebsocketOnMessage(t, raw)

InboxInit == Start({"view"}, MaxInboxSock)

InboxSpec == InboxInit /\ [][InboxNext]_vars

\* the one name typed into the username input: the username changes once
NewNames == {"Ann"}

\* HomeView with the chat input and one change of the username
AuthorNext ==
    \/ Tick
    \/ ViewNext
    \/ \E text \in Texts : SendChatMessage(text)
    \/ \E i \in 1..MaxWait : PollFire(i)
    \/ \E name \in NewNames : TypeUsername(name)
    \/ UpdateUsername

AuthorSpec == ChatInit /\ [][AuthorNext]_vars

\* HomeView receiving what is not a ChatMessage
OddInboxNext ==
    \/ InitWebSocket
    \/ \E t \in Socks : WebsocketOnOpen(t)
    \/ \E t \in Socks : WebsocketClose(t)
    \/ \E sync \in BOOLEAN : CloseConnection(sync)
    \/ \E t \in Socks, raw \in OddPayloads : WebsocketOnMessage(t, raw)

OddInboxSpec == InboxInit /\ [][OddInboxNext]_vars

\* the names typed into the username input, with the names that are empty
\* after trimming
RenameNames == Names \cup {"", " "}

\* HomeView with the username input: the handlers that open and close
\* transports, the input event and the Update name button
RenameNext ==
    \/ InitWebSocket
    \/ \E t \in Socks : WebsocketOnOpen(t)
    \/ \E t \in Socks : WebsocketClose(t)
    \/ \E sync \in BOOLEAN : CloseConnection(sync)
    \/ \E name \in RenameNames : TypeUsername(name)
    \/ UpdateUsername

RenameSpec == ChatInit /\ [][RenameNext]_vars

\* the service receiving: connect(), close(), the open and close events and
\* the message events
SvcInboxNext ==
    \/ SvcConnect
    \/ \E t \in Socks : SvcOnOpen(t)
    \/ \E t \in Socks : SvcOnClose(t)
    \/ \E sync \in BOOLEAN : SvcClose(sync)
    \/ \E t \in Socks, raw \in Payloads : SvcOnMessage(t, raw)

SvcInboxInit == Start({"svc"}, MaxChatSock)

SvcInboxSpec == SvcInboxInit /\ [][SvcInboxNext]_vars

\* HomeView connecting in every environment: the Connect button, the open
\* and close events and the reconnect timeout
UrlNext ==
    \/ Tick
    \/ InitWebSocket
    \/ \E t \in Socks : WebsocketOnOpen(t)
    \/ \E t \in Socks : WebsocketClose(t)
    \/ \E i \in 1..MaxChatSock : ReconnectFire(i)

UrlInit == StartIn({"view"}, MaxChatSock, Envs)

UrlSpec == UrlInit /\ [][UrlNext]_vars

\* one payload for each branch of websocketOnMessage
BranchPayloads ==
    {Json(Object("CHAT", "Bob", "hello")), Json(Object("PONG", "Bob", "hello")),
     Json(Object("USER_COUNT", "System", "5")), Text("hello")}

\* HomeView with every handler
ChatNext ==
    \/ SendNext
    \/ \E t \in Socks, raw \in BranchPayloads : WebsocketOnMessage(t, raw)

ChatSpec == ChatInit /\ [][ChatNext]_vars

\* ----------------------------------------------------------- properties
\* a transport that is connecting or open; the managers never detach the
\* handlers they attached when they constructed it
Live(t) == ws[t] \in {"connecting", "open"}

LiveSocks == {t \in Socks : Live(t)}

HeartbeatActive == pingInterval # 0 /\ hb[pingInterval] # Dead

\* the handlers of the HomeView connection manager
ManagerOps == {"connect", "open", "close", "error", "disconnect", "ping", "reconnect"}

\* C1: in HomeView at most one transport is connecting or open at any time.
C1_AtMostOneLiveTransport == unit = "view" => Cardinality(LiveSocks) <= 1

\* C2: in HomeView, while the component is mounted, after every handler of
\* the connection manager the heartbeat interval is active if and only if
\* status = 1.
C2_HeartbeatIffConnected ==
    (unit = "view" /\ mounted /\ ev.op \in ManagerOps) =>
        (HeartbeatActive <=> status = 1)

\* the handle and the status of the manager the behaviour follows
Handle == IF unit = "view" THEN socket ELSE svcWs

Status == IF unit = "view" THEN status ELSE svcStatus

\* the commands of the user or of the caller
CommandOps == {"connect", "disconnect", "unmount"}

\* C3: in HomeView the close event of a transport that closeConnection closed
\* leaves status at 2 and arms no reconnect timer, whether it is delivered
\* inside close() or at any later time.
C3_ManualCloseNeverReconnects ==
    [][unit = "view" /\ mounted =>
         /\ (ev'.op = "close" /\ ws[ev'.sock] = "closing") =>
                (status' = 2 /\ timeouts' = timeouts)
         /\ (ev'.op = "disconnect" /\ ev'.closeSeen # NoClose) =>
                (status' = 2 /\ Len(timeouts') = Len(timeouts))]_vars

\* C4: in HomeView, when connect() was called while the delay of a reconnect
\* timeout was running and the transport it constructed is still connecting
\* or open, the callback of that timeout constructs no transport.
C4_ReconnectIdempotent ==
    [][(unit = "view" /\ ev'.op = "reconnect"
          /\ ev'.timer[1].conn # 0 /\ Live(ev'.timer[1].conn)) =>
         (ev'.made = 0 /\ ws' = ws)]_vars

\* the timeouts of q without the bookkeeping of commands
Bare(q) == [i \in 1..Len(q) |-> [delay |-> q[i].delay, elapsed |-> q[i].elapsed]]

\* C5: in both managers a close handled while status is not 2 arms exactly
\* one timeout with the configured reconnect delay, and a timeout that fires
\* is gone afterwards and constructs at most one transport.
C5_OneTimerPerUnexpectedClose ==
    [][/\ ev'.closeSeen \in {0, 1} =>
            Bare(timeouts') = Append(Bare(timeouts),
                                     [delay |-> ReconnectTimeout, elapsed |-> 0])
       /\ ev'.op = "reconnect" =>
            /\ Len(timeouts') = Len(timeouts) - 1
            /\ ev'.made \in {0, 1}
            /\ {t \in Socks : ws[t] # ws'[t]} =
                   IF ev'.made = 1 THEN {ev'.sock} ELSE {}]_vars

\* a timeout armed by an unexpected close has fired and made its one attempt
C5_Witness ==
    /\ ev.op = "reconnect"
    /\ ev.made = 1
    /\ ev.timer[1].delay = ReconnectTimeout
    /\ ws[ev.sock] = "connecting"

\* C6: in both managers connect() changes nothing when the current handle is
\* connecting or open.
C6_ConnectIsNoOpWhenLive ==
    [][(ev'.op = "connect" /\ Handle # 0 /\ Live(Handle)) =>
         (ws' = ws /\ Handle' = Handle)]_vars

\* C7: under fair timers, after an unexpected close a new transport is
\* eventually constructed by a reconnect timeout, unless a command is issued
\* first (or the model has no WebSocket object left to construct).
C7_RetryAfterUnexpectedClose ==
    [](ev.closeSeen \in {0, 1} =>
         <>(\/ ev.op = "reconnect" /\ ev.made = 1
            \/ ev.op \in CommandOps
            \/ Created = Cap))

\* C8: while the delay of a timeout armed by the unexpected close of the
\* connected transport is running and no command has been issued, status is
\* 0; and a timeout constructs a transport only after its full delay.
C8_DisconnectedDuringDelay ==
    /\ \A i \in 1..Len(timeouts) :
          (timeouts[i].watch = 1 /\ timeouts[i].elapsed < timeouts[i].delay) =>
              Status = 0
    /\ (ev.op = "reconnect" /\ ev.made = 1) =>
          ev.timer[1].elapsed >= ReconnectTimeout

C10_StatusSetBeforeClose ==
    [][(ev'.op = "disconnect" /\ ev'.sock # 0) =>
         /\ ev'.closeSeen \in {NoClose, 2}
         /\ Status' = 2
         /\ unit = "view" =>
               /\ pingInterval' = 0
               /\ \A i \in HbIds : hb'[i] = Dead
               /\ socket' = 0]_vars

\* disconnect() whose close event was delivered inside close()
C10_Witness ==
    /\ ev.op = "disconnect"
    /\ ev.closeSeen = 2
    /\ ws[ev.sock] = "closed"
    /\ Status = 2

\* C11: in HomeView the open event of a transport leaves status 1 and an
\* active heartbeat interval, and writes exactly one JOIN carrying the
\* current username to the transport that opened.
C11_OpenSendsJoin ==
    [][(unit = "view" /\ ev'.op = "open") =>
         /\ status' = 1
         /\ HeartbeatActive'
         /\ ev'.wrote = <<[sock |-> ev'.sock, frame |-> JoinMessage(username)]>>]_vars

\* the step wrote exactly one CHAT with text and reported no error
WroteChat(e, text) ==
    /\ Len(e.wrote) = 1
    /\ e.wrote[1].frame.type = "CHAT"
    /\ e.wrote[1].frame.message = text
    /\ e.err = ""

\* the callback of a waitForOpenConnection ended the wait in this step
EndsWait == ev'.op = "poll" /\ Len(polls') < Len(polls)

C13_TimeoutEndsTheWait ==
    [][ev'.op = "poll" =>
         LET p == ev'.wait[1]
         IN /\ p.tested <= ConnectionAttempts
            /\ p.tested = ConnectionAttempts =>
                  /\ ev'.err = AttemptsExceeded
                  /\ ev'.wrote = <<>>
                  /\ Len(polls') = Len(polls) - 1
            /\ ev'.wrote # <<>> =>
                  /\ p.tested < ConnectionAttempts
                  /\ \E i \in 1..Len(polls) : polls[i] = p]_vars

\* a wait timed out on a handle that never opened
C13_Witness ==
    /\ ev.op = "poll"
    /\ ev.err = AttemptsExceeded
    /\ ev.wait[1].tested = ConnectionAttempts
    /\ ~ev.wait[1].opened
    /\ polls = <<>>

\* C14: sendChatMessage with no handle reports NotInitialized, writes
\* nothing, starts no wait and leaves status, messages and userCount as
\* they were.
C14_SendWithoutHandle ==
    [][(ev'.op = "send" /\ socket = 0) =>
         /\ ev'.err = NotInitialized
         /\ ev'.wrote = <<>>
         /\ polls' = polls
         /\ status' = status
         /\ messages' = messages
         /\ userCount' = userCount]_vars

\* a send after disconnect() released the handle
C14_Witness ==
    /\ ev.op = "send"
    /\ ev.err = NotInitialized
    /\ socket = 0
    /\ status = 2

\* C15: sendChatMessage(text) with an open handle writes at once exactly one
\* CHAT with the current username and text to the handle, starts no wait
\* and leaves status, messages and userCount as they were.
C15_SendOnOpenHandle ==
    [][(ev'.op = "send" /\ socket # 0 /\ ws[socket] = "open") =>
         /\ WroteChat(ev', ev'.text)
         /\ ev'.wrote[1].sock = socket
         /\ ev'.wrote[1].frame.name = username
         /\ polls' = polls
         /\ status' = status
         /\ messages' = messages
         /\ userCount' = userCount]_vars

\* a CHAT written at once under a name typed after the connection opened
C15_Witness ==
    /\ ev.op = "send"
    /\ WroteChat(ev, "hi")
    /\ ev.wrote[1].sock = socket
    /\ ev.wrote[1].frame.name = "Ann"
    /\ status = 1

\* C16: messages never holds an entry of type PING, PONG or USER_COUNT.
C16_NoControlMessagesInLog ==
    \A i \in 1..Len(messages) :
        messages[i].type \notin {"PING", "PONG", "USER_COUNT"}

\* the payload of the message event handled in the step just taken
Arrived == ev'.data[1]

\* it is the JSON text of an object whose type is in types
ArrivedObject(types) ==
    /\ ev'.op = "message"
    /\ Arrived.kind = "json"
    /\ Arrived.value.js = "object"
    /\ Arrived.value.type \in types

\* it is not the JSON text of an object
ArrivedUndecodable ==
    /\ ev'.op = "message"
    /\ (Arrived.kind = "text" \/ Arrived.value.js = "null")

\* C17: a payload that is not the JSON text of an object makes
\* websocketOnMessage append exactly one entry {name System, message the
\* raw payload, type CHAT}, leave status and userCount as they were and
\* throw nothing.
C17_UndecodableBecomesSystemMessage ==
    [][ArrivedUndecodable =>
         /\ messages' = Append(messages,
                [type |-> "CHAT", name |-> "System",
                 message |-> IF Arrived.kind = "text" THEN Arrived.text ELSE "null"])
         /\ status' = status
         /\ userCount' = userCount
         /\ ~ev'.threw]_vars

\* the text hello arrived and is the last entry
C17_Witness ==
    /\ ev.op = "message"
    /\ ev.data[1] = Text("hello")
    /\ messages # <<>>
    /\ messages[Len(messages)] = [type |-> "CHAT", name |-> "System", message |-> "hello"]

\* what the bodies of Bodies stand for: the integer at their front, 0 when
\* there is none
CountOf(body) ==
    CASE body = "5" -> 5
      [] body = "12" -> 12
      [] body = "12a" -> 12
      [] OTHER -> 0

\* C18: a USER_COUNT message sets userCount to the integer read from its
\* message field, or to 0 when there is none, and leaves messages as it was.
C18_UserCountOverwritten ==
    [][ArrivedObject({"USER_COUNT"}) =>
         /\ userCount' = CountOf(Arrived.value.message)
         /\ messages' = messages]_vars

\* a count of 12 arrived while the log held entries
C18_Witness ==
    /\ ev.op = "message"
    /\ ev.data[1].kind = "json"
    /\ ev.data[1].value.type = "USER_COUNT"
    /\ userCount = 12
    /\ messages # <<>>

\* C19: a CHAT, JOIN, LEAVE or ERROR message is appended to messages as its
\* last entry, with the type, name and message it arrived with.
C19_ChatKindsAppended ==
    [][ArrivedObject({"CHAT", "JOIN", "LEAVE", "ERROR"}) =>
         messages' = Append(messages,
                            [type |-> Arrived.value.type,
                             name |-> Arrived.value.name,
                             message |-> Arrived.value.message])]_vars

\* a JOIN and then a CHAT arrived: the log lists them in that order
C19_Witness ==
    /\ ev.op = "message"
    /\ Len(messages) = 2
    /\ messages[1] = [type |-> "JOIN", name |-> "Bob", message |-> "hello"]
    /\ messages[2] = [type |-> "CHAT", name |-> "Bob", message |-> "hello"]

\* C20: in every step of every handler messages as it was is a prefix of
\* messages as it is.
C20_LogAppendOnly ==
    [][/\ Len(messages) <= Len(messages')
       /\ SubSeq(messages', 1, Len(messages)) = messages]_vars

\* a reconnect constructed a transport while the log held two entries
C20_Witness ==
    /\ ev.op = "reconnect"
    /\ ev.made = 1
    /\ Len(messages) = 2
    /\ messages[1].name = "System"

\* C21: a PONG message leaves messages, userCount and status as they were.
C21_PongChangesNothing ==
    [][ArrivedObject({"PONG"}) =>
         /\ messages' = messages
         /\ userCount' = userCount
         /\ status' = status]_vars

\* a PONG arrived while the log held an entry and a count had been received
C21_Witness ==
    /\ ev.op = "message"
    /\ ev.data[1] = Json(Object("PONG", "Bob", "hello"))
    /\ messages # <<>>
    /\ userCount = 5
    /\ status = 1

\* C22: userCount changes only in the step that handles a USER_COUNT
\* message; every other handler leaves it as it was.
C22_UserCountOnlyByUserCount ==
    [][userCount' # userCount => ArrivedObject({"USER_COUNT"})]_vars

\* the user disconnected and the count received before is still shown
C22_Witness ==
    /\ ev.op = "disconnect"
    /\ status = 2
    /\ userCount = 5

\* C23: a rename with a name that is empty after trimming leaves the
\* username as it was and writes nothing, so that the username is never
\* blank after a rename; a rename with any other name and an open handle
\* writes exactly one JOIN with the new name to the handle and leaves the
\* transports and status as they were.
C23_RenameKeepsAName ==
    [][ev'.op = "rename" =>
         /\ NonBlank(username')
         /\ (NonBlank(username) /\ socket # 0 /\ ws[socket] = "open") =>
               /\ ev'.wrote = <<[sock |-> socket, frame |-> JoinMessage(username')]>>
               /\ ws' = ws
               /\ socket' = socket
               /\ status' = status]_vars

\* C24: in both managers the error event of a transport leaves status, the
\* handle, the heartbeat interval, the reconnect timeouts, messages and
\* userCount (and the transports) as they were.
C24_ErrorOnlyLogged ==
    [][ev'.op = "error" =>
         UNCHANGED <<ws, timeouts, hb, socket, status, pingInterval,
                     svcWs, svcStatus, svcPingInterval, messages, userCount>>]_vars

\* an error event of the connected transport, with a heartbeat running
C24_Witness ==
    /\ ev.op = "error"
    /\ unit = "view"
    /\ ev.sock = socket
    /\ ws[socket] = "open"
    /\ status = 1
    /\ HeartbeatActive

\* C25: in the service a heartbeat callback that runs while status is 1 and
\* the handle is open writes exactly one {type: 0} to the handle; one that
\* runs while status is not 1 writes nothing and leaves no interval that
\* starts a new period, the interval that fired being cancelled.
C25_HeartbeatSelfTerminates ==
    [][(unit = "svc" /\ ev'.op = "ping") =>
         /\ (svcStatus = 1 /\ ws[svcWs] = "open") =>
               ev'.wrote = <<[sock |-> svcWs, frame |-> SvcPing]>>
         /\ svcStatus # 1 =>
               /\ ev'.wrote = <<>>
               /\ \A i \in HbIds : hb'[i] \in {Dead, hb[i]}]_vars

\* C26: in the service a close event handled after close() leaves status 2,
\* and the timeout armed by a close handler that found status 2 constructs
\* no transport when it fires, whatever happened in between.
C26_ManualCloseTimerNeverConnects ==
    [][unit = "svc" =>
         /\ ev'.closeSeen = 2 => svcStatus' = 2
         /\ (ev'.op = "reconnect" /\ ev'.timer[1].manual) =>
               (ev'.made = 0 /\ ws' = ws /\ svcWs' = svcWs)]_vars

\* C27: in the service a close event handled while status is 2 arms no
\* timeout.
C27_ManualCloseArmsNoTimer ==
    [][(unit = "svc" /\ ev'.closeSeen = 2) => Len(timeouts') = Len(timeouts)]_vars

\* C28: in the service a message event whose payload is not JSON is handled
\* without an exception and leaves status, ws and the timers as they were.
C28_UndecodableNotThrown ==
    [][(unit = "svc" /\ ev'.op = "message" /\ Arrived.kind = "text") =>
         /\ ~ev'.threw
         /\ UNCHANGED <<svcWs, svcStatus, svcPingInterval, timeouts, hb>>]_vars

\* protocol://host, :port when port is not empty, endpoint
UrlOf(protocol, host, port, endpoint) ==
    <<protocol, "://", host>>
    \o (IF port # "" THEN <<":", port>> ELSE <<>>)
    \o <<endpoint>>

\* wss for a page loaded with https, ws otherwise
PageProtocol == IF env.protocol = "https:" THEN "wss" ELSE "ws"

\* the integrated flag is set
Integrated == env.VITE_INTEGRATED_MODE \in {"true", "TRUE"}

\* C29 (as stated): the url of every new WebSocket is wss iff the page is
\* https; in integrated mode the host of the page, its port unless that is
\* empty, 80 or 443, and the endpoint; in standalone mode the configured
\* host, the configured port and the endpoint.
C29_UrlAsStated ==
    url # <<>> =>
        url = IF Integrated
              THEN UrlOf(PageProtocol, env.hostname,
                         IF env.port \in {"80", "443"} THEN "" ELSE env.port,
                         Config(env).endpoint)
              ELSE UrlOf(PageProtocol, Config(env).host, Config(env).port,
                         Config(env).endpoint)

\* C29 (amended): as above, but in integrated mode the port of the page is
\* left out only when it is empty or the default port of the protocol of
\* the page: 80 for http, 443 for https.
C29_UrlByPageProtocol ==
    url # <<>> =>
        url = IF Integrated
              THEN UrlOf(PageProtocol, env.hostname,
                         IF <<env.protocol, env.port>> \in
                                {<<"http:", "80">>, <<"https:", "443">>}
                         THEN "" ELSE env.port,
                         Config(env).endpoint)
              ELSE UrlOf(PageProtocol, Config(env).host, Config(env).port,
                         Config(env).endpoint)

\* a reconnect of an integrated https page served on port 80
C29_Witness ==
    /\ ev.op = "reconnect"
    /\ ev.made = 1
    /\ env.protocol = "https:"
    /\ url = <<"wss", "://", "app.example.org", ":", "80", "/chat">>

\* C30: in HomeView, when the handle is a transport that connect()
\* constructed while status was 2, the close event of that transport, also
\* before its open event, leaves status 0 and arms one reconnect timeout.
C30_ConnectLeavesManuallyClosed ==
    [][(unit = "view" /\ mounted /\ ev'.op = "close"
          /\ ev'.sock = socket /\ status = 2) =>
         /\ status' = 0
         /\ Len(timeouts') = Len(timeouts) + 1]_vars

\* C31: the CHAT that a waiting sendChatMessage writes carries the username
\* of the moment sendChatMessage was called: where the username changes
\* once, a wait that was pending when it changed does not write its CHAT
\* under the new username.
C31_WaitingSendKeepsAuthor ==
    [][(ev.op = "type" /\ ev'.op = "poll" /\ ev'.wrote # <<>>) =>
         ev'.wrote[1].frame.name # username]_vars


\* C32: in the service at most one heartbeat interval is alive at any time.
C32_OneSvcHeartbeat ==
    unit = "svc" => Cardinality({i \in HbIds : hb[i] # Dead}) <= 1


\* C33: once HomeView is unmounted no transport is constructed, no heartbeat
\* interval and no reconnect timeout is alive, and the transport that
\* onBeforeUnmount closed is closing or closed.
C33_UnmountedIsQuiet ==
    (unit = "view" /\ ~mounted) =>
        /\ ev.made = 0
        /\ timeouts = <<>>
        /\ \A i \in HbIds : hb[i] = Dead
        /\ (ev.op = "unmount" /\ ev.sock # 0) => ~Live(ev.sock)


\* C34: in HomeView the heartbeat callback calls send only on an open
\* handle, every frame written goes to an open transport, and while the
\* component is mounted status 1 implies that the handle is an open
\* transport.
C34_FramesOnlyToOpenHandle ==
    unit = "view" =>
        /\ (ev.op = "ping" /\ ev.sock # 0) => ws[ev.sock] = "open"
        /\ ev.op \in {"ping", "open", "send", "poll", "rename"} =>
              /\ ~ev.threw
              /\ \A k \in DOMAIN ev.wrote : ws[ev.wrote[k].sock] = "open"
        /\ (mounted /\ status = 1) => (socket # 0 /\ ws[socket] = "open")


\* C35: in HomeView, from closeConnection until the next initWebSocket (the
\* handle is null and a transport has been constructed) no transport is
\* connecting or open, and no message, open or close event changes status,
\* messages, userCount or the heartbeat interval.
C35_QuietAfterDisconnect ==
    [][(unit = "view" /\ socket = 0 /\ Created > 0) =>
         /\ LiveSocks = {}
         /\ ev'.op \in {"message", "open", "close"} =>
               UNCHANGED <<status, messages, userCount, pingInterval, hb>>]_vars


\* C36: the CHAT of a waiting sendChatMessage is written before the CHAT of
\* every sendChatMessage called after it: when a sendChatMessage has just
\* written its CHAT at once, the waits that are pending were started by
\* earlier calls, and none of them writes its CHAT next.
C36_SendsReachWireInOrder ==
    [][(ev.op = "send" /\ ev.wrote # <<>>) =>
         ~(ev'.op = "poll" /\ ev'.wrote # <<>>)]_vars


\* C37: every entry of messages has type CHAT, JOIN, LEAVE or ERROR, whatever
\* JSON text arrives.
C37_LogHoldsMessages ==
    unit = "view" =>
        \A k \in DOMAIN messages : messages[k].type \in {"CHAT", "JOIN", "LEAVE", "ERROR"}


\* C38: in HomeView a CHAT is written only to a transport to which a JOIN
\* was written before.
C38_JoinBeforeChat ==
    [][unit = "view" =>
         \A k \in DOMAIN ev'.wrote :
            ev'.wrote[k].frame.type = "CHAT" => ev'.wrote[k].sock \in joined]_vars

\* a waiting sendChatMessage wrote its CHAT to the second transport
C38_Witness ==
    /\ unit = "view"
    /\ ev.op = "poll"
    /\ ev.wrote # <<>>
    /\ ev.wrote[1].frame.type = "CHAT"
    /\ ev.wrote[1].sock = 2
    /\ ev.wrote[1].sock \in joined

====
